---------------------------- MODULE Spec2Model ----------------------------
(***************************************************************************)
(* A model of the STL reader: the format sniffer check_stl_format, the     *)
(* binary loader loadstl, the ASCII loader loadstl_ascii and the vertex    *)
(* hash table they share (src/src/stlfile.cpp, src/stl_reader/hash96.h).   *)
(*                                                                         *)
(* uint32_t values are kept at their width of 32 bits.  TLC's integers     *)
(* stop at 2^31 - 1, so a uint32_t is a pair of 16-bit digits <<lo, hi>>   *)
(* and a size_t is four such digits; the arithmetic below is the C         *)
(* arithmetic on them (wrapping at the width of the operand type).         *)
(***************************************************************************)
EXTENDS Integers, Sequences, FiniteSets, TLC

(***************************************************************************)
(* Fixed-width unsigned arithmetic on little-endian base-2^16 digits.      *)
(* A numeral is a tuple of 2 digits (uint32_t) or of 4 (size_t).           *)
(***************************************************************************)
Base == 2^16

Digit == 0..(Base - 1)

\* The numeral of a small non-negative integer (x < 2^31).
U32(x) == <<x % Base, x \div Base>>

U64(x) == <<x % Base, x \div Base, 0, 0>>

\* Integer conversions in C: widening zero-extends, narrowing truncates.
Widen(a, n) == IF Len(a) = n THEN a ELSE <<a[1], a[2], 0, 0>>

Narrow(a, n) == IF Len(a) = n THEN a ELSE <<a[1], a[2]>>

\* Whether the numeral fits TLC's integers, and its value when it does.
IsSmall(a) == /\ \A i \in 1..Len(a) : i > 2 => a[i] = 0
              /\ a[2] < 2^15

ToInt(a) == a[2] * Base + a[1]

\* a + b modulo 2^(16 Len(a)).
AddD(a, b) ==
  LET s1 == a[1] + b[1]
      s2 == a[2] + b[2] + s1 \div Base
  IN  IF Len(a) = 2 THEN <<s1 % Base, s2 % Base>>
      ELSE LET s3 == a[3] + b[3] + s2 \div Base
               s4 == a[4] + b[4] + s3 \div Base
           IN  <<s1 % Base, s2 % Base, s3 % Base, s4 % Base>>

\* a - b modulo 2^(16 Len(a)); a digit difference below zero borrows.
SubD(a, b) ==
  LET d1 == a[1] - b[1]
      d2 == a[2] - b[2] - (IF d1 < 0 THEN 1 ELSE 0)
  IN  IF Len(a) = 2 THEN <<d1 % Base, d2 % Base>>
      ELSE LET d3 == a[3] - b[3] - (IF d2 < 0 THEN 1 ELSE 0)
               d4 == a[4] - b[4] - (IF d3 < 0 THEN 1 ELSE 0)
           IN  <<d1 % Base, d2 % Base, d3 % Base, d4 % Base>>

\* a * k modulo 2^(16 Len(a)), for a small factor k (k < 2^15).
MulD(a, k) ==
  LET p1 == a[1] * k
      p2 == a[2] * k + p1 \div Base
  IN  IF Len(a) = 2 THEN <<p1 % Base, p2 % Base>>
      ELSE LET p3 == a[3] * k + p2 \div Base
               p4 == a[4] * k + p3 \div Base
           IN  <<p1 % Base, p2 % Base, p3 % Base, p4 % Base>>

\* a < b for numerals of the same length.
LtD(a, b) ==
  \E i \in 1..Len(a) : /\ a[i] < b[i]
                       /\ \A j \in (i + 1)..Len(a) : a[j] = b[j]

IsZero(a) == \A i \in 1..Len(a) : a[i] = 0

\* x & y on 4-bit and on 16-bit operands, bit by bit.
And4(x, y) ==
  (x % 2) * (y % 2) + 2 * ((x \div 2) % 2) * ((y \div 2) % 2)
    + 4 * ((x \div 4) % 2) * ((y \div 4) % 2) + 8 * (x \div 8) * (y \div 8)

AndN(x, y) ==
  And4(x % 16, y % 16)
    + 16 * And4((x \div 16) % 16, (y \div 16) % 16)
    + 256 * And4((x \div 256) % 16, (y \div 256) % 16)
    + 4096 * And4(x \div 4096, y \div 4096)

\* x | y and x ^ y: the sum, less the bits counted twice.
OrN(x, y) == x + y - AndN(x, y)

XorN(x, y) == x + y - 2 * AndN(x, y)

\* On uint32_t operands.
XorD(a, b) == <<XorN(a[1], b[1]), XorN(a[2], b[2])>>

OrD(a, b) == <<OrN(a[1], b[1]), OrN(a[2], b[2])>>

AndD(a, b) == <<AndN(a[1], b[1]), AndN(a[2], b[2])>>

\* x << k and x >> k on a uint32_t, 0 <= k <= 31.
Shl32(w, k) ==
  IF k >= 16
    THEN <<0, (w[1] * 2^(k - 16)) % Base>>
    ELSE <<(w[1] * 2^k) % Base, (w[2] * 2^k + (w[1] * 2^k) \div Base) % Base>>

Shr32(w, k) ==
  IF k >= 16
    THEN <<w[2] \div 2^(k - 16), 0>>
    ELSE <<(w[1] \div 2^k) + (w[2] % 2^k) * 2^(16 - k), w[2] \div 2^k>>

(***************************************************************************)
(* Hash primitives (hash96.h).                                             *)
(***************************************************************************)
\* val--, smear the highest set bit to the right, ++val; all modulo 2^32.
nextpow2(val) ==
  LET v0 == SubD(val, U32(1))
      v1 == OrD(v0, Shr32(v0, 1))
      v2 == OrD(v1, Shr32(v1, 2))
      v3 == OrD(v2, Shr32(v2, 4))
      v4 == OrD(v3, Shr32(v3, 8))
      v5 == OrD(v4, Shr32(v4, 16))
  IN  AddD(v5, U32(1))

rot32(x, k) == OrD(Shl32(x, k), Shr32(x, 32 - k))

\* x ^= y; x -= rot32(y, k).
Mix(x, y, k) == SubD(XorD(x, y), rot32(y, k))

final96(a, b, c) ==
  LET c1 == Mix(c, b, 14)
      a1 == Mix(a, c1, 11)
      b1 == Mix(b, a1, 25)
      c2 == Mix(c1, b1, 16)
      a2 == Mix(a1, c2, 4)
      b2 == Mix(b1, a2, 14)
      c3 == Mix(c2, b2, 24)
  IN  c3

\* cmp96 that leaves the second word out.
cmp96_skips_word(a, b) == OrD(SubD(a[1], b[1]), SubD(a[3], b[3]))

\* The bitwise OR of the three word differences: zero iff the keys agree.
cmp96(a, b) ==
  OrD(OrD(SubD(a[1], b[1]), SubD(a[2], b[2])), SubD(a[3], b[3]))

copy96(src) == <<src[1], src[2], src[3]>>

(***************************************************************************)
(* Bounds of the model.                                                    *)
(***************************************************************************)
\* Records of a binary file the model follows the loader through.
MaxBinTris == 2

\* Lines after the "solid" line of an ASCII file.
MaxLines == 13

\* Lines of an ASCII file that start with "facet".
MaxFacets == 1

\* Distinct vertex keys an input draws from.
NKeys == 9

OldKeys == 2

\* Corners of an input that repeat an earlier key.
MaxRepeats == 2

ShortLines == 4

(***************************************************************************)
(* Program constants.                                                      *)
(***************************************************************************)
STL_INVALID == 0

STL_ASCII == 1

STL_BINARY == 2

\* ~(vertex_t)0, what vertex() returns when every probe is taken.
FULL == <<Base - 1, Base - 1>>

\* check_stl_format: the shortest stream looked at, and the binary header.
MinFileSize == 15

HeaderSize == 84

RecordSize == 50

\* loadstl_ascii: the triangle capacity when the pre-scan counts no facet.
DefaultTrisCap == 1024

(***************************************************************************)
(* Inputs.  A coordinate is one of 0.0, 1.0 and -0.0; a vertex key is      *)
(* three coordinates, numbered 1..27.  A binary file holds a coordinate    *)
(* as the four little-endian bytes of its IEEE-754 single, an ASCII file   *)
(* as a numeric literal.                                                   *)
(***************************************************************************)
Coords == 0..2

KeyCoords(k) == <<(k - 1) % 3, ((k - 1) \div 3) % 3, ((k - 1) \div 9) % 3>>

\* The bytes of a coordinate in a binary record (0.0, 1.0 = 0x3F800000,
\* -0.0 = 0x80000000), least significant first.
CoordBytes(c) ==
  IF c = 0 THEN <<0, 0, 0, 0>>
  ELSE IF c = 1 THEN <<0, 0, 128, 63>> ELSE <<0, 0, 0, 128>>

\* The literal of a coordinate in an ASCII vertex line: "0", "1", "-0".
CoordText(c) ==
  IF c = 0 THEN [neg |-> FALSE, digits |-> <<0>>]
  ELSE IF c = 1 THEN [neg |-> FALSE, digits |-> <<1>>]
  ELSE [neg |-> TRUE, digits |-> <<0>>]

get16(b) == b[1] + b[2] * 2^8

get32(b) == <<b[1] + b[2] * 2^8, b[3] + b[4] * 2^8>>

\* fast_atof on a literal of a sign and decimal digits (no fraction, no
\* exponent): the double it accumulates, negated after the fact, so that
\* "-0" gives -0.0.
RECURSIVE DigitsValue(_, _)
DigitsValue(ds, acc) ==
  IF ds = <<>> THEN acc ELSE DigitsValue(Tail(ds), acc * 10 + Head(ds))

fast_atof(t) ==
  LET integer_part == DigitsValue(t.digits, 0)
  IN  [neg |-> t.neg, mag |-> integer_part]

\* The bit pattern of a float whose magnitude is 0 or 1.
float_to_uint32(f) ==
  LET sign == IF f.neg THEN 2^15 ELSE 0
      rest == IF f.mag = 0 THEN 0 ELSE 16256
  IN  <<0, sign + rest>>

\* The three words vertex() gets for key k from a binary record ...
BinKey(k) ==
  LET c == KeyCoords(k)
  IN  <<get32(CoordBytes(c[1])), get32(CoordBytes(c[2])), get32(CoordBytes(c[3]))>>

\* ... and from an ASCII vertex line.
AsciiKey(k) ==
  LET c == KeyCoords(k)
  IN  <<float_to_uint32(fast_atof(CoordText(c[1]))),
        float_to_uint32(fast_atof(CoordText(c[2]))),
        float_to_uint32(fast_atof(CoordText(c[3])))>>

KeyTable == [k \in 1..27 |-> BinKey(k)]

\* An ASCII line is taken to be 14 bytes ("vertex 0 0 -0\n"), the "solid"
\* line 7: the lines a file of `size` bytes has room for.
LineBytes == 14

SolidLineBytes == 7

AsciiLen == SolidLineBytes + LineBytes * MaxLines

Min(a, b) == IF a < b THEN a ELSE b

Max(a, b) == IF a < b THEN b ELSE a

\* The first six bytes of the file.
Heads == {"solid ", "solidx", "STLB  "}

\* File lengths: around the sniffer's thresholds, whole and cut binary
\* files, an ASCII file, lengths below 2^32 that a wrapped 84 + 50 n
\* meets (88, 2^31 + 84 and 2863311648), and a length above 2^32.
SmallSizes ==
  {0, 14, 15, 83, 84, 88, AsciiLen}
    \cup {HeaderSize + RecordSize * k : k \in 1..MaxBinTris}
    \cup {HeaderSize + RecordSize * k - 10 : k \in 1..MaxBinTris}

Sizes ==
  {U64(x) : x \in SmallSizes}
    \cup {<<38, 0, 1, 0>>, <<HeaderSize, 2^15, 0, 0>>, <<43808, 43690, 0, 0>>}

\* Header counts: the small ones, 2^31 + k (50 n wraps to 50 k),
\* 85899346 (84 + 50 n wraps to 88), 85899345 (84 + 50 n = 2^32 + 38),
\* 2^30 (4 n wraps to 0, 84 + 50 n to 2^31 + 84) and 1431655766 (3 n wraps
\* to 2, 9 n to 6, 84 + 50 n to 2863311648).
HeaderCounts ==
  {U32(k) : k \in 0..(MaxBinTris + 1)}
    \cup {<<k, 2^15>> : k \in 0..1}
    \cup {U32(85899346), U32(85899345)}
    \cup {<<0, 2^14>>, <<21846, 21845>>}

\* A file that starts with "solid " holds, at offset 80, text or the count
\* that matches its length; only a file of AsciiLen bytes has lines that
\* start with "facet".
Files ==
  {f \in [head : Heads, size : Sizes, n : HeaderCounts, facets : 0..MaxFacets] :
     /\ f.head = "solid "
          => IF \E c \in HeaderCounts :
                  f.size = Widen(AddD(U32(HeaderSize), MulD(c, RecordSize)), 4)
               THEN f.size = Widen(AddD(U32(HeaderSize), MulD(f.n, RecordSize)), 4)
               ELSE f.n = U32(0)
     /\ f.head # "solid " => f.facets = 0
     /\ f.facets > 0 <=> f.head = "solid " /\ f.size = U64(AsciiLen)}

\* Complete records after the header of a binary file.
RecordsIn(f) ==
  IF IsSmall(f.size) /\ ToInt(f.size) >= HeaderSize
    THEN (ToInt(f.size) - HeaderSize) \div RecordSize
  ELSE IF f.size[3] = 0 /\ f.size[4] = 0 /\ ~IsSmall(f.size)
    THEN f.size[2] * (Base \div RecordSize)
           + (f.size[2] * (Base % RecordSize) + f.size[1] - HeaderSize)
               \div RecordSize
    ELSE 0

\* Lines after the "solid" line: MaxLines in a file of AsciiLen bytes, in a
\* shorter one the lines of LineBytes it has room for, up to ShortLines.
LinesIn(f) ==
  IF f.size = U64(AsciiLen) THEN MaxLines
  ELSE IF IsSmall(f.size) /\ ToInt(f.size) >= SolidLineBytes
    THEN Min(ShortLines, (ToInt(f.size) - SolidLineBytes) \div LineBytes)
    ELSE 0

(***************************************************************************)
(* State.                                                                  *)
(***************************************************************************)
VARIABLES
  file,      \* the input: first six bytes, length, the word at offset 80,
             \* and (ASCII) the number of lines that start with "facet"
  rest,      \* input not yet read: [lines, facets, repeats]
  pos,       \* position of the stream fp
  pc,        \* where the call is
  format_status, \* loadstl: what check_stl_format returned
  ret,       \* loadstl's return value, once pc = "done"
  io,        \* the standard streams written to
  ptr,       \* each buffer pointer: "none", "live", "null" or "freed"
  alloc,     \* elements each live buffer was allocated for (size_t)
  leaks,     \* blocks whose only pointer was overwritten
  ub,        \* an access outside a live buffer has happened
  ntris,     \* triangle count (uint32_t)
  nverts,    \* vertex count (uint32_t)
  tris,      \* triangle indices written, in order
  verts,     \* vertex keys written, in order
  attrs,     \* attribute values written, in order
  vht,       \* the hash table: slot -> stored value, for the non-zero slots
  vhtcap,    \* its capacity (uint32_t)
  tris_cap,  \* loadstl_ascii: capacity of tris in triangles (size_t)
  verts_cap, \* loadstl_ascii: capacity of verts in vertices (size_t)
  i,         \* loadstl: the record; loadstl_ascii: the corner of the facet
  ti,        \* loadstl: the corner of the record
  buf,       \* loadstl: the record read, [keys, attr]
  v_idx,     \* loadstl_ascii: vertices accumulated for the facet
  v,         \* loadstl_ascii: their keys
  vi,        \* loadstl_ascii: their indices
  out,       \* the output parameters
  fed,       \* history: the key behind each entry of tris
  since      \* history: vertex lines scanned since the last line that was
             \* taken as "facet" or "endfacet"

vars == <<file, rest, pos, pc, format_status, ret, io, ptr, alloc, leaks, ub, ntris, nverts,
          tris, verts, attrs, vht, vhtcap, tris_cap, verts_cap, i, ti, buf,
          v_idx, v, vi, out, fed, since>>

Buffers == {"fileBuffer", "tris", "verts", "vht", "attrs"}

Zero32 == U32(0)

One32 == U32(1)

\* A value no input holds, for memory not yet written.
Junk == <<FULL, FULL, FULL>>

(***************************************************************************)
(* The heap.                                                               *)
(***************************************************************************)
\* malloc/calloc: a block, or NULL.
Alloc(p, name, ok) == [p EXCEPT ![name] = IF ok THEN "live" ELSE "null"]

\* free(): NULL is ignored; a block already freed is freed twice.
Free(p, names) ==
  [b \in Buffers |->
     IF b \in names
       THEN (IF p[b] = "live" THEN "freed"
             ELSE IF p[b] = "freed" THEN "freed twice" ELSE p[b])
       ELSE p[b]]

\* x = realloc(x, n): on failure x becomes NULL and its block is lost.
Realloc(p, name, ok) == [p EXCEPT ![name] = IF ok THEN "live" ELSE "null"]

Lost(p, name, ok) == IF ~ok /\ p[name] = "live" THEN 1 ELSE 0

\* Whether element idx of the buffer may be written.
InBounds(p, a, name, idx) == p[name] = "live" /\ LtD(U64(idx), a[name])

(***************************************************************************)
(* The vertex table (stlfile.cpp, vertex()).                               *)
(***************************************************************************)
\* A table whose slots all read as empty.
SlotValue_empty(t, slot) == Zero32


SlotValue(t, slot) == IF slot \in DOMAIN t THEN t[slot] ELSE Zero32

\* The vertex one place before the one asked for.
VertAt_off_by_one(vs, idx) ==
  IF IsSmall(idx) /\ ToInt(idx) < Len(vs) /\ ToInt(idx) > 0
    THEN vs[ToInt(idx)] ELSE Junk


VertAt(vs, idx) ==
  IF IsSmall(idx) /\ ToInt(idx) < Len(vs) THEN vs[ToInt(idx) + 1] ELSE Junk

\* The slot probed at step i.
Slot(hash, cap, k) == ToInt(AndD(AddD(hash, k), SubD(cap, One32)))

RECURSIVE Probe(_, _, _, _, _, _, _)
Probe(vs, nv, t, cap, vert, hash, k) ==
  IF ~LtD(k, cap) THEN [vi |-> FULL, vht |-> t]
  ELSE
    LET slot == Slot(hash, cap, k)
        cur  == SlotValue(t, slot)
    IN  IF IsZero(cur)
          THEN [vi |-> nv, vht |-> (slot :> AddD(nv, One32)) @@ t]
          ELSE IF IsZero(cmp96(vert, VertAt(vs, SubD(cur, One32))))
                 THEN [vi |-> SubD(cur, One32), vht |-> t]
                 ELSE Probe(vs, nv, t, cap, vert, hash, AddD(k, One32))

\* vertex() announcing a new key with the count after the insertion.
vertex_counts_first(vs, nv, t, cap, vert) ==
  LET r == Probe(vs, nv, t, cap, vert, final96(vert[1], vert[2], vert[3]),
                 Zero32)
  IN  [vi  |-> IF r.vi = nv THEN AddD(nv, One32) ELSE r.vi,
       vht |-> r.vht]

\* vertex() storing the index itself in the slot of a new key, not the
\* index plus one.
vertex_stores_index(vs, nv, t, cap, vert) ==
  LET r == Probe(vs, nv, t, cap, vert, final96(vert[1], vert[2], vert[3]),
                 Zero32)
  IN  [vi  |-> r.vi,
       vht |-> [s \in DOMAIN r.vht |-> IF s \in DOMAIN t THEN t[s] ELSE nv]]

\* vertex(verts, nverts, vht, vhtcap, vert): the index returned and the
\* table afterwards.
vertex(vs, nv, t, cap, vert) ==
  Probe(vs, nv, t, cap, vert, final96(vert[1], vert[2], vert[3]), Zero32)

(***************************************************************************)
(* The format sniffer.                                                     *)
(***************************************************************************)
\* A sniffer that looks for "solid " before it looks at the length.
check_stl_format_solid_first(f) ==
  IF f.head = "solid "
    THEN [status |-> STL_ASCII, io |-> {}, pos |-> U64(6)]
  ELSE IF LtD(f.size, U64(HeaderSize))
    THEN [status |-> STL_INVALID, io |-> {"stdout"}, pos |-> U64(0)]
  ELSE IF f.size # Widen(AddD(U32(HeaderSize), MulD(f.n, RecordSize)), 4)
    THEN [status |-> STL_INVALID, io |-> {}, pos |-> U64(HeaderSize)]
  ELSE [status |-> STL_BINARY, io |-> {}, pos |-> U64(0)]

\* A sniffer that takes any file with a whole header for a binary one.
check_stl_format_any_length(f) ==
  IF LtD(f.size, U64(MinFileSize))
    THEN [status |-> STL_INVALID, io |-> {"stdout"}, pos |-> U64(0)]
  ELSE IF f.head = "solid "
    THEN [status |-> STL_ASCII, io |-> {}, pos |-> U64(6)]
  ELSE IF LtD(f.size, U64(HeaderSize))
    THEN [status |-> STL_INVALID, io |-> {"stdout"}, pos |-> U64(6)]
  ELSE [status |-> STL_BINARY, io |-> {}, pos |-> U64(0)]

\* The classification, the streams printed to, the stream position left.
check_stl_format(f) ==
  IF LtD(f.size, U64(MinFileSize))
    THEN [status |-> STL_INVALID, io |-> {"stdout"}, pos |-> U64(0)]
  ELSE IF f.head = "solid "
    THEN [status |-> STL_ASCII, io |-> {}, pos |-> U64(6)]
  ELSE IF LtD(f.size, U64(HeaderSize))
    THEN [status |-> STL_INVALID, io |-> {"stdout"}, pos |-> U64(6)]
  ELSE IF f.size # Widen(AddD(U32(HeaderSize), MulD(f.n, RecordSize)), 4)
    THEN [status |-> STL_INVALID, io |-> {}, pos |-> U64(HeaderSize)]
  ELSE [status |-> STL_BINARY, io |-> {}, pos |-> U64(0)]

Init ==
  /\ file \in Files
  /\ rest = [lines |-> LinesIn(file), facets |-> file.facets,
             repeats |-> MaxRepeats]
  /\ pos = U64(0)
  /\ pc = "start"
  /\ format_status = STL_INVALID
  /\ ret = 0
  /\ io = {}
  /\ ptr = [b \in Buffers |-> "none"]
  /\ alloc = [b \in Buffers |-> U64(0)]
  /\ leaks = 0
  /\ ub = FALSE
  /\ ntris = Zero32
  /\ nverts = Zero32
  /\ tris = <<>>
  /\ verts = <<>>
  /\ attrs = <<>>
  /\ vht = <<>>
  /\ vhtcap = Zero32
  /\ tris_cap = U64(0)
  /\ verts_cap = U64(0)
  /\ i = 0
  /\ ti = 0
  /\ buf = [keys |-> <<1, 1, 1>>, attr |-> <<0, 0>>]
  /\ v_idx = 0
  /\ v = <<Junk, Junk, Junk>>
  /\ vi = <<Zero32, Zero32, Zero32>>
  /\ out = [set |-> FALSE, vertp |-> "none", nvertp |-> Zero32,
            trip |-> "none", attrp |-> "none", ntrip |-> Zero32]
  /\ fed = <<>>
  /\ since = 0

(***************************************************************************)
(* loadstl: sniffing and dispatch.                                         *)
(***************************************************************************)
heap == <<ptr, alloc, leaks, ub>>

mesh == <<ntris, nverts, tris, verts, attrs, vht, vhtcap, fed>>

bin_locals == <<i, ti, buf>>

ascii_locals == <<rest, tris_cap, verts_cap, v_idx, v, vi, since>>

\* check_stl_format(fp), called at the top of loadstl.
CheckFormat ==
  /\ pc = "start"
  /\ LET r == check_stl_format(file)
     IN  /\ format_status' = r.status
         /\ io' = io \cup r.io
         /\ pos' = r.pos
  /\ pc' = "sniffed"
  /\ UNCHANGED <<file, ret, out>>
  /\ UNCHANGED <<heap, mesh, bin_locals, ascii_locals>>

\* loadstl after the sniffer: -2 for an invalid format, else the loader.
Dispatch ==
  /\ pc = "sniffed"
  /\ IF format_status = STL_INVALID
       THEN /\ io' = io \cup {"stderr"}
            /\ ret' = -2
            /\ pc' = "done"
            /\ pos' = pos
       ELSE IF format_status = STL_ASCII
         THEN /\ pos' = U64(0)
              /\ pc' = "ascii_read"
              /\ UNCHANGED <<io, ret>>
         ELSE /\ pc' = "bin_header"
              /\ UNCHANGED <<io, ret, pos>>
  /\ UNCHANGED <<file, format_status, out>>
  /\ UNCHANGED <<heap, mesh, bin_locals, ascii_locals>>

(***************************************************************************)
(* loadstl: the binary loader.                                             *)
(***************************************************************************)
\* The attribute bytes a record may hold.
AttrBytes == {<<1, 2>>}

\* The key a corner may hold when m keys have been seen and r corners may
\* still repeat one: one of the first OldKeys of them, or the next one.
KeyChoices(m, r) ==
  (IF r > 0 THEN 1..Min(OldKeys, m) ELSE {}) \cup {Min(NKeys, m + 1)}

\* Whether key k repeats one of the m seen.
Repeat(k, m) == IF k <= m THEN 1 ELSE 0

\* The corners of record k that repeat a key, m keys having been seen.
Repeats(k, m) ==
  Repeat(k[1], m) + Repeat(k[2], Max(m, k[1]))
    + Repeat(k[3], Max(Max(m, k[1]), k[2]))

\* The keys a record's corners may hold.
RecordKeys(m, r) ==
  {k \in (1..NKeys) \X (1..NKeys) \X (1..NKeys) :
     /\ k[1] \in KeyChoices(m, r)
     /\ k[2] \in KeyChoices(Max(m, k[1]), r)
     /\ k[3] \in KeyChoices(Max(Max(m, k[1]), k[2]), r)
     /\ Repeats(k, m) <= r}

\* exit_fail: free the four buffers, return -1.
ExitFail ==
  /\ io' = io \cup {"stderr"}
  /\ ptr' = Free(ptr, {"vht", "verts", "tris", "attrs"})
  /\ ret' = -1
  /\ pc' = "done"

\* Lines 482-503: read the header, allocate for ntris triangles.  No result
\* of malloc is checked; memset writes through vht.
BinHeader ==
  /\ pc = "bin_header"
  /\ \/ /\ io' = io \cup {"stderr"}
        /\ ret' = -1
        /\ pc' = "done"
        /\ UNCHANGED <<pos, heap, mesh, bin_locals>>
     \/ \E okT, okA, okV, okH \in BOOLEAN :
          LET n   == file.n
              cap == nextpow2(MulD(n, 4))
              bad == ~okH /\ ~IsZero(cap)
          IN  /\ ntris' = n
              /\ vhtcap' = cap
              /\ ptr' = [ptr EXCEPT !["tris"]  = IF okT THEN "live" ELSE "null",
                                    !["attrs"] = IF okA THEN "live" ELSE "null",
                                    !["verts"] = IF okV THEN "live" ELSE "null",
                                    !["vht"]   = IF okH THEN "live" ELSE "null"]
              /\ alloc' = [alloc EXCEPT !["tris"]  = Widen(MulD(n, 3), 4),
                                        !["attrs"] = Widen(n, 4),
                                        !["verts"] = Widen(MulD(MulD(n, 3), 3), 4),
                                        !["vht"]   = Widen(cap, 4)]
              /\ ub' = (ub \/ bad)
              /\ pc' \in (IF bad THEN {"crash", "bin_record"} ELSE {"bin_record"})
              /\ pos' = U64(HeaderSize)
              /\ nverts' = Zero32
              /\ vht' = <<>>
              /\ i' = 0
              /\ UNCHANGED <<io, ret, leaks, tris, verts, attrs, fed, ti, buf>>
  /\ UNCHANGED <<file, format_status, out, ascii_locals>>

\* Lines 504-508: the next record, or a short read.
BinRecord ==
  /\ pc = "bin_record"
  /\ LtD(U32(i), ntris)
  /\ \/ /\ ExitFail
        /\ UNCHANGED <<pos, alloc, leaks, ub, bin_locals, rest>>
     \/ /\ i < RecordsIn(file)
        /\ i < MaxBinTris
        /\ \E k \in RecordKeys(ToInt(nverts), rest.repeats), a \in AttrBytes :
             /\ buf' = [keys |-> k, attr |-> a]
             /\ rest' = [rest EXCEPT !.repeats = @ - Repeats(k, ToInt(nverts))]
        /\ ti' = 0
        /\ pos' = AddD(pos, U64(RecordSize))
        /\ pc' = "bin_corner"
        /\ UNCHANGED <<io, ret, heap, i>>
  /\ UNCHANGED <<file, format_status, out, mesh>>
  /\ UNCHANGED <<tris_cap, verts_cap, v_idx, v, vi, since>>

\* Lines 510-527, one corner: look the vertex up, append it when new,
\* record its index.
BinCorner ==
  /\ pc = "bin_corner"
  /\ \E vert \in {BinKey(buf.keys[ti + 1])} :
     \E r \in {vertex(verts, nverts, vht, vhtcap, vert)} :
         IF r.vi = FULL
           THEN /\ ExitFail
                /\ ub' = (ub \/ (~IsZero(vhtcap) /\ ptr["vht"] # "live"))
                /\ UNCHANGED <<alloc, leaks, mesh, bin_locals>>
           ELSE
             LET isnew == r.vi = nverts
                 bad   == \/ ptr["vht"] # "live"
                          \/ ptr["verts"] # "live"
                          \/ isnew /\ ~InBounds(ptr, alloc, "verts", 3 * ToInt(nverts) + 2)
                          \/ ~InBounds(ptr, alloc, "tris", 3 * i + ti)
             IN  /\ ub' = (ub \/ bad)
                 /\ \/ /\ bad
                       /\ pc' = "crash"
                       /\ UNCHANGED <<mesh, bin_locals>>
                    \/ /\ vht' = r.vht
                       /\ verts' = IF isnew THEN Append(verts, copy96(vert)) ELSE verts
                       /\ nverts' = IF isnew THEN AddD(nverts, One32) ELSE nverts
                       /\ tris' = Append(tris, r.vi)
                       /\ fed' = Append(fed, vert)
                       /\ ti' = ti + 1
                       /\ pc' = IF ti = 2 THEN "bin_attr" ELSE "bin_corner"
                       /\ UNCHANGED <<ntris, attrs, vhtcap, i, buf>>
                 /\ UNCHANGED <<io, ret, ptr, alloc, leaks>>
  /\ UNCHANGED <<file, format_status, pos, out, ascii_locals>>

\* Line 528: the record's attribute.
BinAttr ==
  /\ pc = "bin_attr"
  /\ LET bad == ~InBounds(ptr, alloc, "attrs", i)
     IN  /\ ub' = (ub \/ bad)
         /\ \/ /\ bad
               /\ pc' = "crash"
               /\ UNCHANGED <<attrs, i>>
            \/ /\ attrs' = Append(attrs, get16(buf.attr))
               /\ i' = i + 1
               /\ pc' = "bin_record"
  /\ UNCHANGED <<file, format_status, pos, ret, io, out, ptr, alloc, leaks>>
  /\ UNCHANGED <<ntris, nverts, tris, verts, vht, vhtcap, fed, ti, buf>>
  /\ UNCHANGED ascii_locals

\* The final realloc(verts, 3 * nverts words): a block, or NULL; shrinking
\* to zero bytes frees the block whatever is returned.
Shrink(p, ok) ==
  [p EXCEPT !["verts"] = IF ok THEN "live"
                         ELSE (IF IsZero(nverts) /\ p["verts"] = "live" THEN "freed" ELSE "null")]

ShrinkLost(p, ok) ==
  IF ~ok /\ ~IsZero(nverts) /\ p["verts"] = "live" THEN 1 ELSE 0

\* Lines 531-538: drop the table, trim verts, hand the mesh out.
BinFinish ==
  /\ pc = "bin_record"
  /\ ~LtD(U32(i), ntris)
  /\ \E ok \in BOOLEAN :
       LET p1 == Free(ptr, {"vht"})
           p2 == Shrink(p1, ok)
       IN  /\ ptr' = p2
           /\ leaks' = leaks + ShrinkLost(p1, ok)
           /\ alloc' = [alloc EXCEPT !["verts"] = MulD(Widen(nverts, 4), 3)]
           /\ out' = [set |-> TRUE,
                      vertp |-> IF p2["verts"] = "live" THEN "live" ELSE "null",
                      nvertp |-> nverts,
                      trip |-> ptr["tris"], attrp |-> ptr["attrs"],
                      ntrip |-> ntris]
  /\ ret' = 0
  /\ pc' = "done"
  /\ UNCHANGED <<file, format_status, pos, io, ub, mesh, bin_locals, ascii_locals>>

(***************************************************************************)
(* loadstl_ascii.                                                          *)
(***************************************************************************)
\* Lines 226-252, the pre-scan: the lines that start with "facet".
ntris_estimate(f) == U32(f.facets)

\* A failure return of loadstl_ascii: free the named buffers, return -1.
AsciiFail(p, names) ==
  /\ io' = io \cup {"stderr"}
  /\ ptr' = Free(p, names)
  /\ ret' = -1
  /\ pc' = "done"

\* Lines 197-224: buffer the whole file.
AsciiRead ==
  /\ pc = "ascii_read"
  /\ \/ /\ AsciiFail(Alloc(ptr, "fileBuffer", FALSE), {})
        /\ UNCHANGED <<pos, alloc>>
     \/ /\ AsciiFail(Alloc(ptr, "fileBuffer", TRUE), {"fileBuffer"})
        /\ alloc' = [alloc EXCEPT !["fileBuffer"] = AddD(file.size, U64(1))]
        /\ UNCHANGED pos
     \/ /\ ptr' = Alloc(ptr, "fileBuffer", TRUE)
        /\ alloc' = [alloc EXCEPT !["fileBuffer"] = AddD(file.size, U64(1))]
        /\ pos' = file.size
        /\ pc' = "ascii_alloc"
        /\ UNCHANGED <<io, ret>>
  /\ UNCHANGED <<file, format_status, out, leaks, ub, mesh, bin_locals, ascii_locals>>

\* Lines 226-283: size the arrays and the table from the pre-scan.
AsciiAlloc ==
  /\ pc = "ascii_alloc"
  /\ \E okT, okV, okH \in BOOLEAN :
       LET est == ntris_estimate(file)
           tc  == IF ~IsZero(est) THEN Widen(est, 4) ELSE U64(DefaultTrisCap)
           vc  == MulD(tc, 3)
           cap == nextpow2(Narrow(MulD(vc, 2), 2))
           p1  == Alloc(Alloc(Alloc(ptr, "tris", okT), "verts", okV), "vht", okH)
       IN  IF ~(okT /\ okV /\ okH)
             THEN /\ AsciiFail(p1, {"fileBuffer", "tris", "verts", "vht"})
                  /\ UNCHANGED <<alloc, tris_cap, verts_cap, vhtcap>>
             ELSE /\ ptr' = p1
                  /\ alloc' = [alloc EXCEPT !["tris"]  = MulD(tc, 3),
                                            !["verts"] = MulD(vc, 3),
                                            !["vht"]   = Widen(cap, 4)]
                  /\ tris_cap' = tc
                  /\ verts_cap' = vc
                  /\ vhtcap' = cap
                  /\ pc' = "ascii_line"
                  /\ UNCHANGED <<io, ret>>
  /\ ntris' = Zero32
  /\ nverts' = Zero32
  /\ vht' = <<>>
  /\ v_idx' = 0
  /\ UNCHANGED <<file, format_status, pos, out, leaks, ub, tris, verts, attrs, fed>>
  /\ UNCHANGED <<bin_locals, rest, v, vi, since>>

\* One more line is scanned; the lines promised to start with "facet" must
\* still fit.
Scan(isFacet, repeat) ==
  /\ pc = "ascii_line"
  /\ IF isFacet THEN rest.facets > 0 ELSE rest.lines > rest.facets
  /\ rest' = [lines   |-> rest.lines - 1,
              facets  |-> IF isFacet THEN rest.facets - 1 ELSE rest.facets,
              repeats |-> rest.repeats - repeat]

\* A "facet" line that leaves the accumulated vertices in place.
LineFacet_keeps_count ==
  /\ Scan(TRUE, 0)
  /\ since' = 0
  /\ UNCHANGED <<file, format_status, pos, pc, ret, io, out, heap, mesh>>
  /\ UNCHANGED <<bin_locals, tris_cap, verts_cap, v_idx, v, vi>>

\* Lines 293-302: "facet".
LineFacet ==
  /\ Scan(TRUE, 0)
  /\ v_idx' = 0
  /\ since' = 0
  /\ UNCHANGED <<file, format_status, pos, pc, ret, io, out, heap, mesh>>
  /\ UNCHANGED <<bin_locals, tris_cap, verts_cap, v, vi>>

\* The keys in use: in verts, or accumulated for the facet.
KeysInUse ==
  {k \in 1..NKeys :
     \/ \E j \in 1..Len(verts) : verts[j] = KeyTable[k]
     \/ \E j \in 1..v_idx : v[j] = KeyTable[k]}

\* The number of keys seen.
KeysSeen ==
  IF KeysInUse = {} THEN 0
  ELSE CHOOSE k \in KeysInUse : \A l \in KeysInUse : l <= k

\* Lines 304-336: "vertex x y z".
LineVertex ==
  /\ pc = "ascii_line"
  /\ \E m \in {KeysSeen} :
     \E k \in KeyChoices(m, rest.repeats) :
       LET c == KeyCoords(k)
           x == fast_atof(CoordText(c[1]))
           y == fast_atof(CoordText(c[2]))
           z == fast_atof(CoordText(c[3]))
           vert == <<float_to_uint32(x), float_to_uint32(y), float_to_uint32(z)>>
       IN  /\ Scan(FALSE, Repeat(k, m))
           /\ IF v_idx < 3
                THEN /\ v' = [v EXCEPT ![v_idx + 1] = copy96(vert)]
                     /\ v_idx' = v_idx + 1
                     /\ io' = io
                ELSE /\ io' = io \cup {"stderr"}
                     /\ UNCHANGED <<v, v_idx>>
  /\ since' = since + 1
  /\ UNCHANGED <<file, format_status, pos, pc, ret, out, heap, mesh>>
  /\ UNCHANGED <<bin_locals, tris_cap, verts_cap, vi>>

\* Where fast_atof finds no literal (the start of a line such as "vertex"
\* or "endfacet"): no digit is read.
NoLiteral == [neg |-> FALSE, digits |-> <<>>]

\* The scan of a vertex line that ends before its third literal: the
\* whitespace skipped at lines 313-318 includes the newline, fast_atof
\* then runs on the start of the next line, and lines 321-324 skip to the
\* end of that line.  The next line, if there is one, goes with it.
ScanTwo(nextIsFacet, repeat) ==
  /\ pc = "ascii_line"
  /\ rest.lines > rest.facets
  /\ IF nextIsFacet THEN rest.facets > 0
                     ELSE rest.lines = 1 \/ rest.lines - 1 > rest.facets
  /\ rest' = [lines   |-> Max(rest.lines - 2, 0),
              facets  |-> IF nextIsFacet THEN rest.facets - 1 ELSE rest.facets,
              repeats |-> rest.repeats - repeat]

\* Lines 304-336: "vertex x y", the third literal missing.
LineVertexShort ==
  /\ pc = "ascii_line"
  /\ \E m \in {KeysSeen} :
     \E k \in KeyChoices(m, rest.repeats), nextIsFacet \in BOOLEAN :
       LET c == KeyCoords(k)
           x == fast_atof(CoordText(c[1]))
           y == fast_atof(CoordText(c[2]))
           z == fast_atof(NoLiteral)
           vert == <<float_to_uint32(x), float_to_uint32(y), float_to_uint32(z)>>
       IN  /\ vert = AsciiKey(k)
           /\ ScanTwo(nextIsFacet, Repeat(k, m))
           /\ IF v_idx < 3
                THEN /\ v' = [v EXCEPT ![v_idx + 1] = copy96(vert)]
                     /\ v_idx' = v_idx + 1
                     /\ io' = io
                ELSE /\ io' = io \cup {"stderr"}
                     /\ UNCHANGED <<v, v_idx>>
  /\ since' = since + 1
  /\ UNCHANGED <<file, format_status, pos, pc, ret, out, heap, mesh>>
  /\ UNCHANGED <<bin_locals, tris_cap, verts_cap, vi>>

\* Lines 338-345 and 435-438: "endfacet".
LineEndfacet ==
  /\ Scan(FALSE, 0)
  /\ IF v_idx = 3
       THEN /\ pc' = "ascii_corner"
            /\ i' = 0
            /\ io' = io
       ELSE /\ io' = io \cup {"stderr"}
            /\ UNCHANGED <<pc, i>>
  /\ since' = 0
  /\ UNCHANGED <<file, format_status, pos, ret, out, heap, mesh>>
  /\ UNCHANGED <<ti, buf, tris_cap, verts_cap, v_idx, v, vi>>

\* Lines 441-446: any other line.
LineOther ==
  /\ Scan(FALSE, 0)
  /\ UNCHANGED <<file, format_status, pos, pc, ret, io, out, heap, mesh>>
  /\ UNCHANGED <<bin_locals, tris_cap, verts_cap, v_idx, v, vi, since>>

\* Lines 400-416: vi[i] is in hand; append the vertex when it is new,
\* doubling verts first when it is full, and go to the next corner.
Append96(r) ==
  LET isnew == r.vi = nverts
      grow  == isnew /\ ~LtD(Widen(nverts, 4), verts_cap)
  IN  \E ok \in (IF grow THEN BOOLEAN ELSE {TRUE}) :
        IF grow /\ ~ok
          THEN /\ AsciiFail(Realloc(ptr, "verts", FALSE), {"fileBuffer", "tris", "vht"})
               /\ leaks' = leaks + Lost(ptr, "verts", FALSE)
               /\ verts_cap' = MulD(verts_cap, 2)
               /\ vht' = r.vht
               /\ vi' = [vi EXCEPT ![i + 1] = r.vi]
               /\ UNCHANGED <<alloc, verts, nverts, i>>
          ELSE /\ verts_cap' = IF grow THEN MulD(verts_cap, 2) ELSE verts_cap
               /\ alloc' = IF grow
                             THEN [alloc EXCEPT !["verts"] = MulD(MulD(verts_cap, 2), 3)]
                             ELSE alloc
               /\ verts' = IF isnew THEN Append(verts, copy96(v[i + 1])) ELSE verts
               /\ nverts' = IF isnew THEN AddD(nverts, One32) ELSE nverts
               /\ vht' = r.vht
               /\ vi' = [vi EXCEPT ![i + 1] = r.vi]
               /\ i' = i + 1
               /\ pc' = IF i = 2 THEN "ascii_emit" ELSE "ascii_corner"
               /\ UNCHANGED <<io, ret, ptr, leaks>>

\* Lines 347-349: look corner i up; a full table is resized first.
AsciiCorner ==
  /\ pc = "ascii_corner"
  /\ \E r \in {vertex(verts, nverts, vht, vhtcap, v[i + 1])} :
         IF r.vi = FULL
           THEN /\ vi' = [vi EXCEPT ![i + 1] = FULL]
                /\ pc' = "ascii_resize"
                /\ UNCHANGED <<io, ret, ptr, alloc, leaks, verts_cap, verts,
                               nverts, vht, i>>
           ELSE Append96(r)
  /\ UNCHANGED <<file, format_status, pos, out, ub, ntris, tris, attrs, vhtcap, fed>>
  /\ UNCHANGED <<ti, buf, rest, tris_cap, v_idx, v, since>>

\* A rehash that stores into its first probe whether or not it is taken.
Place_first_probe(new, cap, hash, val, j) ==
  [failed |-> FALSE, vht |-> (Slot(hash, cap, j) :> val) @@ new]

\* Lines 364-387: every occupant of the old table goes to the first free
\* slot of its probe sequence in the new one.
RECURSIVE Place(_, _, _, _, _)
Place(new, cap, hash, val, j) ==
  IF ~LtD(j, cap) THEN [failed |-> TRUE, vht |-> new]
  ELSE LET slot == Slot(hash, cap, j)
       IN  IF IsZero(SlotValue(new, slot))
             THEN [failed |-> FALSE, vht |-> (slot :> val) @@ new]
             ELSE Place(new, cap, hash, val, AddD(j, One32))

RECURSIVE Rehash(_, _, _, _, _, _)
Rehash(old, old_vhtcap, new, cap, vs, idx) ==
  IF ~LtD(idx, old_vhtcap) THEN [failed |-> FALSE, vht |-> new]
  ELSE
    LET val == SlotValue(old, ToInt(idx))
    IN  IF IsZero(val)
          THEN Rehash(old, old_vhtcap, new, cap, vs, AddD(idx, One32))
          ELSE
            LET vi_old   == SubD(val, One32)
                vert_old == VertAt(vs, vi_old)
                hash     == final96(vert_old[1], vert_old[2], vert_old[3])
                placed   == Place(new, cap, hash, AddD(vi_old, One32), Zero32)
            IN  IF placed.failed THEN placed
                ELSE Rehash(old, old_vhtcap, placed.vht, cap, vs,
                            AddD(idx, One32))

\* Lines 350-388: double the table and rehash.
AsciiResize ==
  /\ pc = "ascii_resize"
  /\ \E ok \in BOOLEAN :
     \E old_vhtcap \in {vhtcap}, cap \in {MulD(vhtcap, 2)} :
     \E re \in {Rehash(vht, old_vhtcap, <<>>, cap, verts, Zero32)} :
           /\ vhtcap' = cap
           /\ IF ~ok
                THEN /\ AsciiFail(ptr, {"fileBuffer", "tris", "verts", "vht"})
                     /\ UNCHANGED <<vht, alloc>>
                ELSE IF re.failed
                  THEN /\ AsciiFail(ptr, {"fileBuffer", "tris", "verts", "vht"})
                       /\ UNCHANGED <<vht, alloc>>
                  ELSE /\ vht' = re.vht
                       /\ alloc' = [alloc EXCEPT !["vht"] = Widen(cap, 4)]
                       /\ pc' = "ascii_retry"
                       /\ UNCHANGED <<io, ret, ptr>>
  /\ UNCHANGED <<file, format_status, pos, out, leaks, ub>>
  /\ UNCHANGED <<ntris, nverts, tris, verts, attrs, fed>>
  /\ UNCHANGED <<bin_locals, ascii_locals>>

\* Lines 389-399: the lookup again, in the new table.
AsciiRetry ==
  /\ pc = "ascii_retry"
  /\ \E r \in {vertex(verts, nverts, vht, vhtcap, v[i + 1])} :
         IF r.vi = FULL
           THEN /\ AsciiFail(ptr, {"fileBuffer", "tris", "verts", "vht"})
                /\ vi' = [vi EXCEPT ![i + 1] = FULL]
                /\ UNCHANGED <<alloc, leaks, verts_cap, verts, nverts, vht, i>>
           ELSE Append96(r)
  /\ UNCHANGED <<file, format_status, pos, out, ub, ntris, tris, attrs, vhtcap, fed>>
  /\ UNCHANGED <<ti, buf, rest, tris_cap, v_idx, v, since>>

\* Lines 418-434: append the triangle, doubling tris first when it is full.
AsciiEmit ==
  /\ pc = "ascii_emit"
  /\ LET grow == ~LtD(Widen(ntris, 4), tris_cap)
     IN  \E ok \in (IF grow THEN BOOLEAN ELSE {TRUE}) :
           IF grow /\ ~ok
             THEN /\ AsciiFail(Realloc(ptr, "tris", FALSE), {"fileBuffer", "verts", "vht"})
                  /\ leaks' = leaks + Lost(ptr, "tris", FALSE)
                  /\ tris_cap' = MulD(tris_cap, 2)
                  /\ UNCHANGED <<alloc, tris, fed, ntris, v_idx>>
             ELSE /\ tris_cap' = IF grow THEN MulD(tris_cap, 2) ELSE tris_cap
                  /\ alloc' = IF grow
                                THEN [alloc EXCEPT !["tris"] = MulD(MulD(tris_cap, 2), 3)]
                                ELSE alloc
                  /\ tris' = tris \o vi
                  /\ fed' = fed \o v
                  /\ ntris' = AddD(ntris, One32)
                  /\ v_idx' = 0
                  /\ pc' = "ascii_line"
                  /\ UNCHANGED <<io, ret, ptr, leaks>>
  /\ UNCHANGED <<file, format_status, pos, out, ub, nverts, verts, attrs, vht, vhtcap>>
  /\ UNCHANGED <<bin_locals, rest, verts_cap, v, vi, since>>

\* Lines 449-457, at the end of the input: drop the buffer and the table,
\* trim verts, hand the mesh out.
AsciiFinish ==
  /\ pc = "ascii_line"
  /\ rest.facets = 0
  /\ \E ok \in BOOLEAN :
       LET p1 == Free(ptr, {"fileBuffer", "vht"})
           p2 == Shrink(p1, ok)
       IN  /\ ptr' = p2
           /\ leaks' = leaks + ShrinkLost(p1, ok)
           /\ alloc' = [alloc EXCEPT !["verts"] = MulD(Widen(nverts, 4), 3)]
           /\ out' = [set |-> TRUE,
                      vertp |-> IF p2["verts"] = "live" THEN "live" ELSE "null",
                      nvertp |-> nverts,
                      trip |-> ptr["tris"], attrp |-> "null",
                      ntrip |-> ntris]
  /\ rest' = [rest EXCEPT !.lines = 0]
  /\ ret' = 0
  /\ pc' = "done"
  /\ UNCHANGED <<file, format_status, pos, io, ub, mesh, bin_locals>>
  /\ UNCHANGED <<tris_cap, verts_cap, v_idx, v, vi, since>>

Next ==
  \/ CheckFormat
  \/ Dispatch
  \/ BinHeader
  \/ BinRecord
  \/ BinCorner
  \/ BinAttr
  \/ BinFinish
  \/ AsciiRead
  \/ AsciiAlloc
  \/ LineFacet
  \/ LineVertex
  \/ LineVertexShort
  \/ LineEndfacet
  \/ LineOther
  \/ AsciiCorner
  \/ AsciiResize
  \/ AsciiRetry
  \/ AsciiEmit
  \/ AsciiFinish

Spec == Init /\ [][Next]_vars

(***************************************************************************)
(* Properties.                                                             *)
(***************************************************************************)
\* loadstl has returned 0.
Success == pc = "done" /\ ret = 0

\* The distinct elements of s, in order of first appearance, after acc.
RECURSIVE FirstSeen(_, _)
FirstSeen(s, acc) ==
  IF s = <<>> THEN acc
  ELSE FirstSeen(Tail(s),
                 IF \E j \in 1..Len(acc) : acc[j] = Head(s)
                   THEN acc ELSE Append(acc, Head(s)))

\* 3 * n as a size_t.
Thrice(n) == MulD(Widen(n, 4), 3)

\* C1: after a successful parse, binary or ASCII, there are 3 * ntrip
\* recorded triangle indices, each of them is below the vertex count
\* handed out, and the vertex count is at most 3 * ntrip.
C1_IndicesBelowCount ==
  Success =>
    /\ out.set
    /\ out.nvertp = nverts /\ out.ntrip = ntris
    /\ U64(Len(tris)) = Thrice(out.ntrip)
    /\ \A j \in 1..Len(tris) : LtD(tris[j], out.nvertp)
    /\ ~LtD(Thrice(out.ntrip), Widen(out.nvertp, 4))

\* Both loaders succeed on two triangles with a shared corner.
C1_Witness ==
  /\ Success /\ ~ub /\ Len(tris) = 6
  /\ LtD(Widen(out.nvertp, 4), Thrice(out.ntrip))
  /\ format_status = STL_BINARY

\* C2: after a successful parse two corners have the same index exactly
\* when their three key words are equal, and no two entries of the vertex
\* array hold the same key.
C2_WeldingIsKeyEquality ==
  Success =>
    /\ Len(fed) = Len(tris)
    /\ \A a, b \in 1..Len(tris) : (tris[a] = tris[b]) <=> (fed[a] = fed[b])
    /\ \A a, b \in 1..Len(verts) : verts[a] = verts[b] => a = b

\* A parse with a repeated key, and with (0, 0, 0) and (-0, 0, 0) both
\* present under different indices.
C2_Witness ==
  /\ Success /\ ~ub
  /\ \E a, b \in 1..Len(tris) : a # b /\ fed[a] = fed[b] /\ tris[a] = tris[b]
  /\ \E a, b \in 1..Len(tris) :
       /\ fed[a] = KeyTable[1] /\ fed[b] = KeyTable[3]
       /\ tris[a] # tris[b]

\* A step in which a loader appends a vertex.
Appends == Len(verts') = Len(verts) + 1

\* The key looked up by the step: the corner's, in either loader.
Corner == IF pc = "bin_corner" THEN BinKey(buf.keys[ti + 1]) ELSE v[i + 1]

\* The index the step records for its corner.
Recorded == IF pc = "bin_corner" THEN tris'[Len(tris')] ELSE vi'[i + 1]

\* C3: indices follow first appearance.  After a successful parse the
\* vertex array is the distinct keys of the corners in input order and
\* each corner's index is the position of its key; and a step that meets
\* a key not yet in the array gets the current vertex count from vertex(),
\* records it for the corner and appends the key at that position.
C3_FirstAppearanceOrder ==
  /\ [](Success =>
         /\ verts = FirstSeen(fed, <<>>)
         /\ \A j \in 1..Len(tris) : VertAt(verts, tris[j]) = fed[j])
  /\ [][/\ Appends =>
             /\ vertex(verts, nverts, vht, vhtcap, Corner).vi = nverts
             /\ Recorded = nverts
             /\ verts' = Append(verts, Corner)
             /\ nverts' = AddD(nverts, One32)
             /\ U32(Len(verts)) = nverts
        /\ (/\ pc \in {"bin_corner", "ascii_corner", "ascii_retry"}
            /\ pc' \notin {"done", "crash", "ascii_resize"}
            /\ \A j \in 1..Len(verts) : verts[j] # Corner) => Appends]_vars

\* A parse where a later corner goes back to an earlier key after four
\* keys have been appended.
C3_Witness ==
  /\ Success /\ ~ub /\ Len(verts) >= 4
  /\ \E j \in 2..Len(tris) : LtD(tris[j], tris[j - 1])

\* C4: after a successful parse the vertex count is the number of distinct
\* keys among the corners, and there are three corners to a triangle.
C4_CountIsDistinctKeys ==
  Success =>
    /\ ToInt(out.nvertp) = Cardinality({fed[j] : j \in 1..Len(fed)})
    /\ U64(Len(fed)) = Thrice(out.ntrip)

\* The fan: two binary triangles with one common vertex give 5 vertices.
\* The shared edge: two ASCII facets with two common vertices, held at the
\* same indices in both, give 4.
C4_Witness ==
  /\ Success /\ ~ub /\ ToInt(out.ntrip) = 2
  /\ \/ /\ format_status = STL_BINARY
        /\ ToInt(out.nvertp) = 5
     \/ /\ format_status = STL_ASCII
        /\ ToInt(out.nvertp) = 4
        /\ fed[4] = fed[1] /\ fed[5] = fed[2]
        /\ tris[4] = tris[1] /\ tris[5] = tris[2]

\* 84 + 50 * n as an integer (below 2^38), n a uint32_t.
ExactLength(n) == AddD(U64(HeaderSize), MulD(Widen(n, 4), RecordSize))

\* The sniffer has returned.
Sniffed == pc # "start"

\* The stream holds a whole binary header and does not start with "solid ".
BinaryLooking == file.head # "solid " /\ ~LtD(file.size, U64(HeaderSize))

\* C5: a stream of at least 84 bytes that does not start with "solid " is
\* classified binary exactly when its length is 84 + 50 * N as integers, N
\* the count at offset 80, and is invalid otherwise.
C5_BinaryIffExactLength ==
  (Sniffed /\ BinaryLooking) =>
    /\ format_status = STL_BINARY <=> file.size = ExactLength(file.n)
    /\ format_status \in {STL_BINARY, STL_INVALID}

\* C6: the sniffer's checks in order.  Shorter than 15 bytes: invalid,
\* whatever the content; else "solid " first: ASCII; else shorter than 84
\* bytes: invalid; and loadstl returns -2 exactly for the invalid streams.
C6_SniffOrder ==
  Sniffed =>
    /\ LtD(file.size, U64(MinFileSize)) => format_status = STL_INVALID
    /\ (~LtD(file.size, U64(MinFileSize)) /\ file.head = "solid ")
         => format_status = STL_ASCII
    /\ (/\ ~LtD(file.size, U64(MinFileSize))
        /\ LtD(file.size, U64(HeaderSize))
        /\ file.head # "solid ") => format_status = STL_INVALID
    /\ pc = "done" => (ret = -2 <=> format_status = STL_INVALID)

\* loadstl has returned -2 for a 14-byte stream that starts with "solid ".
C6_Witness ==
  /\ pc = "done" /\ ret = -2
  /\ file.head = "solid " /\ file.size = U64(MinFileSize - 1)

\* loadstl has returned a failure.
Failure == pc = "done" /\ ret # 0

\* C7: on a failure return no buffer of the call is still allocated, none
\* was lost or freed twice, and no output parameter has been written.
C7_FailureReleasesAll ==
  Failure =>
    /\ \A b \in Buffers : ptr[b] \in {"none", "null", "freed"}
    /\ leaks = 0
    /\ ~out.set

\* C8: an allocation that fails ends the call with a failure: no buffer
\* is used through a null pointer, and a successful return leaves no
\* buffer of non-zero size null.
C8_AllocFailureAborts ==
  /\ ~ub
  /\ Success => \A b \in Buffers : ptr[b] = "null" => IsZero(alloc[b])

\* A binary file with fewer bytes than its header count declares.
Truncated == BinaryLooking /\ LtD(file.size, ExactLength(file.n))

\* The length is 84 + 50 * N modulo 2^32: what the sniffer compares.
WrappedLengthMatches ==
  file.size = Widen(AddD(U32(HeaderSize), MulD(file.n, RecordSize)), 4)

\* C9 as stated: a truncated binary file ends with the short-read failure
\* -1 and no mesh.
C9_TruncatedIsShortRead ==
  (Truncated /\ pc = "done") => (ret = -1 /\ ~out.set)

\* C9, amended: a truncated binary file ends with a failure and no mesh;
\* the failure is -2, from the sniffer, unless the length is 84 + 50 * N
\* modulo 2^32, and only then is it the short read, -1.
C9_TruncatedFails ==
  (Truncated /\ pc = "done") =>
    /\ ~out.set
    /\ ret = (IF WrappedLengthMatches THEN -1 ELSE -2)

\* A file with a header count of 1 and 10 bytes missing has been refused
\* as invalid.
C9_Witness ==
  /\ Truncated /\ pc = "done" /\ ret = -2
  /\ file.n = U32(1) /\ file.size = U64(HeaderSize + RecordSize - 10)

\* The values stored in the table.
Stored(t) == {t[slot] : slot \in DOMAIN t}

\* C10: a step that doubles the table and rehashes keeps the set of
\* stored indices, each in one slot, leaves the vertex array and the
\* triangle indices alone, and vertex() on any key of the array then
\* returns the key's index.
C10_RehashKeepsIndices ==
  [][(pc = "ascii_resize" /\ pc' = "ascii_retry") =>
       /\ vhtcap' = MulD(vhtcap, 2)
       /\ Stored(vht') = Stored(vht)
       /\ Cardinality(DOMAIN vht') = Cardinality(DOMAIN vht)
       /\ Cardinality(DOMAIN vht') = Cardinality(Stored(vht'))
       /\ verts' = verts /\ nverts' = nverts
       /\ tris' = tris /\ vi' = vi
       /\ \A j \in 1..Len(verts) :
            vertex(verts', nverts', vht', vhtcap', verts[j]).vi = U32(j - 1)]_vars

\* The table has been doubled from 8 full slots to 16.
C10_Witness ==
  /\ pc = "ascii_retry"
  /\ vhtcap = U32(16)
  /\ Cardinality(DOMAIN vht) = 8
  /\ Len(verts) = 8

\* C11: no path of the core writes to standard output or standard error.
C11_NoDiagnostics == io = {}

\* The keys an ASCII vertex line may hold.
AsciiKeys == {AsciiKey(k) : k \in 1..NKeys}

Occupied == Cardinality(DOMAIN vht)

\* C13: whenever a loader is about to call vertex(), fewer slots of the
\* table are in use than the table has: the load factor is below 1.
C13_LoadBelowOne ==
  pc \in {"bin_corner", "ascii_corner", "ascii_retry"}
    => LtD(U32(Occupied), vhtcap)

\* C14: on a file the sniffer has accepted as binary, whatever its header
\* count, the loader never takes the "vertex hash full" exit: no corner
\* lookup ends the call.
C14_BinaryNeverFull == [][~(pc = "bin_corner" /\ pc' = "done")]_vars

\* A uint32_t with exactly one bit set.
IsPow2(c) == ~IsZero(c) /\ IsZero(AndD(c, SubD(c, One32)))

\* A loader has sized its table and has not returned.
TableInUse ==
  pc \in {"bin_record", "bin_corner", "bin_attr", "ascii_line",
          "ascii_corner", "ascii_resize", "ascii_retry", "ascii_emit"}

\* C15: while a loader runs, the capacity of the vertex table is a power of
\* two (so at least 1), for every accepted input and after every doubling.
C15_CapacityPowerOfTwo == TableInUse => IsPow2(vhtcap)

(***************************************************************************)
(* nextpow2 on its own: a second specification that applies the function   *)
(* to one argument.  The argument is held in ntris and the result in       *)
(* vhtcap, as in loadstl's vhtcap = nextpow2(...); nothing else moves.     *)
(***************************************************************************)
\* Arguments 0..Pow2Small are all tried.
Pow2Small == 64

\* The arguments: the small ones, and around every power of two up to
\* 2^31, and the largest uint32_t.
Pow2Inputs ==
  {U32(n) : n \in 0..Pow2Small}
    \cup {Shl32(One32, k) : k \in 0..31}
    \cup {SubD(Shl32(One32, k), One32) : k \in 0..31}
    \cup {AddD(Shl32(One32, k), One32) : k \in 0..31}
    \cup {FULL}

Pow2Init ==
  /\ ntris \in Pow2Inputs
  /\ vhtcap = Zero32
  /\ pc = "nextpow2"
  /\ file = [head |-> "STLB  ", size |-> U64(0), n |-> Zero32, facets |-> 0]
  /\ rest = [lines |-> 0, facets |-> 0, repeats |-> 0]
  /\ pos = U64(0)
  /\ format_status = STL_INVALID
  /\ ret = 0
  /\ io = {}
  /\ ptr = [b \in Buffers |-> "none"]
  /\ alloc = [b \in Buffers |-> U64(0)]
  /\ leaks = 0
  /\ ub = FALSE
  /\ nverts = Zero32
  /\ tris = <<>>
  /\ verts = <<>>
  /\ attrs = <<>>
  /\ vht = <<>>
  /\ tris_cap = U64(0)
  /\ verts_cap = U64(0)
  /\ i = 0
  /\ ti = 0
  /\ buf = [keys |-> <<1, 1, 1>>, attr |-> <<0, 0>>]
  /\ v_idx = 0
  /\ v = <<Junk, Junk, Junk>>
  /\ vi = <<Zero32, Zero32, Zero32>>
  /\ out = [set |-> FALSE, vertp |-> "none", nvertp |-> Zero32,
            trip |-> "none", attrp |-> "none", ntrip |-> Zero32]
  /\ fed = <<>>
  /\ since = 0

\* vhtcap = nextpow2(ntris).
Pow2Apply ==
  /\ pc = "nextpow2"
  /\ vhtcap' = nextpow2(ntris)
  /\ pc' = "returned"
  /\ UNCHANGED <<file, rest, pos, format_status, ret, io, heap, out>>
  /\ UNCHANGED <<ntris, nverts, tris, verts, attrs, vht, fed>>
  /\ UNCHANGED <<bin_locals, tris_cap, verts_cap, v_idx, v, vi, since>>

Pow2Next == Pow2Apply

SpecPow2 == Pow2Init /\ [][Pow2Next]_vars

\* C16: for every argument n >= 1, nextpow2(n) is a power of two, is at
\* least n, and is the smallest such: it is n itself or its half is below
\* n.
C16_SmallestPowerOfTwo ==
  (pc = "returned" /\ ~IsZero(ntris)) =>
    /\ IsPow2(vhtcap)
    /\ ~LtD(vhtcap, ntris)
    /\ (vhtcap = ntris \/ LtD(Shr32(vhtcap, 1), ntris))
    /\ IsPow2(ntris) => vhtcap = ntris

\* C16 for the arguments up to 2^31 only.
Pow2UpToHalf ==
  (pc = "returned" /\ ~IsZero(ntris) /\ ~LtD(Shl32(One32, 31), ntris)) =>
    /\ IsPow2(vhtcap)
    /\ ~LtD(vhtcap, ntris)
    /\ (vhtcap = ntris \/ LtD(Shr32(vhtcap, 1), ntris))

\* C17: when the sniffer returns ASCII or binary it has left the stream at
\* offset 0.
C17_SnifferRewinds ==
  (pc = "sniffed" /\ format_status # STL_INVALID) => pos = U64(0)

\* C18: the scan of a vertex line ends at the end of that line, so the
\* line after it is still to be scanned: a step that scans a vertex line
\* takes exactly one line of the input.
C18_VertexLineStaysOnLine ==
  [][(pc = "ascii_line" /\ since' = since + 1)
       => rest'.lines = rest.lines - 1]_vars

\* C19: a triangle is built from vertex lines that came after the most
\* recent line taken as "facet" or "endfacet": when an "endfacet" line
\* starts a triangle, at least three vertex lines have been scanned since
\* that line.
C19_TriangleFromCurrentFacet ==
  [][(pc = "ascii_line" /\ pc' = "ascii_corner") => since >= 3]_vars

\* The four buffers of the binary loader are blocks, not NULL.
BinAllocated == \A b \in {"tris", "verts", "attrs", "vht"} : ptr[b] = "live"

\* C20: every write into tris, verts and attrs is inside the block
\* allocated for the array.  In the binary loader: the corner's index
\* tris[3 i + ti], a new vertex's words verts[3 nverts .. 3 nverts + 2] and
\* the record's attrs[i], against the allocations of 3 N, 9 N and N
\* elements; in the ASCII loader: a new vertex's words and the triangle's
\* three indices, against the capacities after any doubling.
C20_WritesInBounds ==
  /\ (pc = "bin_corner" /\ BinAllocated /\ ~ub)
       => /\ LtD(U64(3 * i + ti), alloc["tris"])
          /\ LtD(AddD(Thrice(nverts), U64(2)), alloc["verts"])
  /\ (pc = "bin_attr" /\ BinAllocated /\ ~ub) => LtD(U64(i), alloc["attrs"])
  /\ (pc \in {"ascii_line", "ascii_corner", "ascii_retry", "ascii_emit"})
       => /\ ~LtD(alloc["verts"], Thrice(nverts))
          /\ ~LtD(alloc["tris"], Thrice(ntris))
          /\ alloc["verts"] = MulD(verts_cap, 3)
          /\ alloc["tris"] = MulD(tris_cap, 3)

\* C21: the table and the vertex array agree.  Between corners every slot
\* in use holds a value in 1..nverts and every index below nverts is held,
\* plus one, by exactly one slot.  A call of vertex() that returns an
\* index already given out, or ~0, leaves the table as it was; one that
\* returns nverts changes exactly one slot, from empty to nverts + 1; and
\* the loader goes on with the table vertex() left.
C21_TableMatchesArray ==
  /\ []((TableInUse /\ ~ub) =>
         /\ U32(Len(verts)) = nverts
         /\ \A s \in DOMAIN vht : ~IsZero(vht[s]) /\ ~LtD(nverts, vht[s])
         /\ \A j \in 1..Len(verts) :
              Cardinality({s \in DOMAIN vht : vht[s] = U32(j)}) = 1)
  /\ [][(pc \in {"bin_corner", "ascii_corner", "ascii_retry"} /\ ~ub) =>
          LET r == vertex(verts, nverts, vht, vhtcap, Corner)
          IN  /\ r.vi = FULL \/ LtD(r.vi, nverts) \/ r.vi = nverts
              /\ r.vi # nverts => r.vht = vht
              /\ r.vi = nverts =>
                   \E s \in DOMAIN r.vht :
                     /\ s \notin DOMAIN vht
                     /\ r.vht[s] = AddD(nverts, One32)
                     /\ DOMAIN r.vht = DOMAIN vht \cup {s}
                     /\ \A u \in DOMAIN vht : r.vht[u] = vht[u]
              /\ pc' # "crash" => vht' = r.vht]_vars

\* The binary loader between the last two corners of its second record:
\* four lookups have returned a new index and one an index given out
\* before, and four slots are in use.
C21_Witness ==
  /\ pc = "bin_corner" /\ ~ub /\ ti = 2 /\ i = 1
  /\ Len(tris) = 5 /\ ToInt(nverts) = 4 /\ Occupied = 4

=============================================================================
